---- MODULE Spec2Model ----
(***************************************************************************)
(* Model of the AMSKY01 API INDI weather driver                            *)
(* (src/drivers/weather/AMSKY01/amsky01_api.cpp, amsky01_api.h).           *)
(*                                                                         *)
(* The driver polls an HTTP endpoint, decodes the JSON body with jsoncpp   *)
(* and copies six readings into the weatherData snapshot and into the      *)
(* host's weather parameters.  The host framework (INDI::DefaultDevice,    *)
(* INDI::Weather) owns the connection flag and the one-shot timers; the    *)
(* model keeps just that much of it: the flag the driver reads with        *)
(* isConnected(), the pending timers it arms with SetTimer(), the polling  *)
(* period it reads with getCurrentPollingPeriod() and the parameter        *)
(* values it writes with setParameterValue().                              *)
(*                                                                         *)
(* Two specifications:                                                     *)
(*   Spec       the driver's life cycle under host callbacks               *)
(*   SpecParse  parseJSONData applied to a prior snapshot and a document   *)
(*              drawn from bounded sets, once and then once more           *)
(***************************************************************************)
EXTENDS Integers, FiniteSets, Sequences, TLC

VARIABLES
    weatherData,    \* the snapshot (amsky01_api.h:51-66)
    params,         \* host weather parameters written by setParameterValue
    apiUrl,         \* configured endpoint (amsky01_api.h:68)
    ApiUrlT,        \* text of the API_URL element of ApiUrlTP
    ApiUrlTPs,      \* ApiUrlTP.s, the property state
    connected,      \* what isConnected() returns
    timers,         \* pending one-shot timers: period -> how many
    pollingPeriod,  \* what getCurrentPollingPeriod() returns
    jsonData,       \* SpecParse: the document under parse
    calls,          \* SpecParse: how often it has been parsed
    parsed,         \* history: some parse has returned true
    last            \* history: the last callback, its inputs and its result

vars == <<weatherData, params, apiUrl, ApiUrlT, ApiUrlTPs, connected, timers,
          pollingPeriod, jsonData, calls, parsed, last>>

----------------------------------------------------------------------------
(* Bounds *)

\* readings carried by documents are 1..MaxVal (0 is the initial value)
MaxVal == 2
\* at most this many timers are pending at once
MaxTimers == 2
\* SpecParse parses its document at most this often
MaxParses == 2

Nums == 1..MaxVal

----------------------------------------------------------------------------
(* Program constants *)

ConnectTimerMs == 2000          \* SetTimer(2000) in updateProperties
DefaultPollingPeriod == 1000    \* INDI::DefaultDevice default POLLING_PERIOD
HTTP_OK == 200                  \* http_code != 200
CloudSlots == 5                 \* double cloudTemp[5]
CenterSlot == 4                 \* weatherData.cloudTemp[4]

DefaultUrl == "http://localhost:8080/data.json"
\* the second is accepted as it is: ISNewText validates nothing
Urls == {DefaultUrl, "not a url"}

PollingPeriods == {DefaultPollingPeriod, ConnectTimerMs}
TimerPeriods == PollingPeriods \cup {ConnectTimerMs}

ParamNames == {"WEATHER_TEMPERATURE", "WEATHER_HUMIDITY", "WEATHER_DEW_POINT",
               "WEATHER_LIGHT_LUX", "WEATHER_SKY_BRIGHTNESS",
               "WEATHER_SKY_TEMP_CENTER"}

----------------------------------------------------------------------------
(* JSON documents as jsoncpp sees them *)

\* a member of a namespace object: missing, null, a number, or a string
\* (a string is not convertible to double: asDouble throws)
FV(t, v) == [t |-> t, v |-> v]
AbsentV == FV("absent", 0)
NullV == FV("null", 0)
StrV == FV("str", 0)
NumV(n) == FV("num", n)
FieldVals == {AbsentV, NullV, StrV} \cup {NumV(n) : n \in Nums}

HygroKeys == {"temp", "rh", "dew_point"}
LightKeys == {"lux", "sqm"}
CloudKeys == {"center"}

\* a top-level namespace: missing, present but not an object, or an object
NoMembers(keys) == [k \in keys |-> AbsentV]
AbsentNS(keys) == [kind |-> "absent", f |-> NoMembers(keys)]
NonObjNS(keys) == [kind |-> "nonobj", f |-> NoMembers(keys)]
ObjNS(f) == [kind |-> "object", f |-> f]
Namespaces(keys) ==
    {AbsentNS(keys), NonObjNS(keys)} \cup {ObjNS(f) : f \in [keys -> FieldVals]}

\* a response body: root is "malformed" (not JSON), "object", "null", or
\* "array" (any well-formed root that is neither an object nor null)
Body(root, h, l, c) == [root |-> root, hygro |-> h, light |-> l, cloud |-> c]
Bare(root) ==
    Body(root, AbsentNS(HygroKeys), AbsentNS(LightKeys), AbsentNS(CloudKeys))
NotJson == Bare("malformed")
NullDoc == Bare("null")
ArrayDoc == Bare("array")
EmptyDoc == Bare("object")
ObjectDocs ==
    {Body("object", h, l, c) : h \in Namespaces(HygroKeys),
                               l \in Namespaces(LightKeys),
                               c \in Namespaces(CloudKeys)}
Docs == ObjectDocs \cup {NullDoc, ArrayDoc}

\* Json::parseFromStream
parseFromStream(body) == body.root # "malformed"

\* Json::Value::isMember: asserts the value is an object or null
isMemberThrows(root) == root.root \notin {"object", "null"}
isMember(root, ns) == root.root = "object" /\ ns.kind # "absent"
isObject(ns) == ns.kind = "object"
\* Json::Value::isNull on the result of operator[]: a missing member reads
\* as the null singleton
isNull(v) == v.t \in {"absent", "null"}
\* Json::Value::asDouble: numbers convert, null converts to 0, the rest throws
asDoubleThrows(v) == v.t \notin {"num", "null"}
asDouble(v) == IF v.t = "num" THEN v.v ELSE 0

----------------------------------------------------------------------------
(* The snapshot and the host parameters *)

InitWeatherData ==
    [temperature |-> 0, humidity |-> 0, dewPoint |-> 0,
     lux |-> 0, skyBrightness |-> 0,
     cloudTemp |-> [i \in 0..(CloudSlots - 1) |-> 0],
     avgCloudTemp |-> 0,
     dataValid |-> FALSE]

\* addParameter registers each parameter with value 0
InitParams == [p \in ParamNames |-> 0]

setParameterValue(ps, name, value) == [ps EXCEPT ![name] = value]

----------------------------------------------------------------------------
(* parseJSONData (amsky01_api.cpp:204-272)                                 *)
(* The try block is threaded through a record st = [wd, params, thrown]:   *)
(* once thrown is set the remaining statements are skipped, and what was   *)
(* assigned before the throw stays assigned.                               *)

Throw(st) == [st EXCEPT !.thrown = TRUE]

\* variant: a missing member resets the field to 0
Extract_resets(st, field, v) ==
    IF st.thrown THEN st
    ELSE IF isNull(v) THEN [st EXCEPT !.wd[field] = 0]
    ELSE IF asDoubleThrows(v) THEN Throw(st)
    ELSE [st EXCEPT !.wd[field] = asDouble(v)]

\* variant: the member is added to the field instead of replacing it
Extract_adds(st, field, v) ==
    IF st.thrown \/ isNull(v) THEN st
    ELSE IF asDoubleThrows(v) THEN Throw(st)
    ELSE [st EXCEPT !.wd[field] = @ + asDouble(v)]

\* if (!ns["key"].isNull()) weatherData.field = ns["key"].asDouble();
Extract(st, field, v) ==
    IF st.thrown \/ isNull(v) THEN st
    ELSE IF asDoubleThrows(v) THEN Throw(st)
    ELSE [st EXCEPT !.wd[field] = asDouble(v)]

\* lines 219-233
ParseHygro(st, root) ==
    IF st.thrown THEN st
    ELSE IF isMemberThrows(root) THEN Throw(st)
    ELSE IF ~(isMember(root, root.hygro) /\ isObject(root.hygro)) THEN st
    ELSE LET hygro == root.hygro.f
             s1 == Extract(st, "temperature", hygro["temp"])
             s2 == Extract(s1, "humidity", hygro["rh"])
             s3 == Extract(s2, "dewPoint", hygro["dew_point"])
             p1 == setParameterValue(s3.params, "WEATHER_TEMPERATURE",
                                     s3.wd.temperature)
             p2 == setParameterValue(p1, "WEATHER_HUMIDITY", s3.wd.humidity)
             p3 == setParameterValue(p2, "WEATHER_DEW_POINT", s3.wd.dewPoint)
         IN  IF s3.thrown THEN s3 ELSE [s3 EXCEPT !.params = p3]

\* variant: lux and sqm are read from each other's member
ParseLight_swapped(st, root) ==
    IF st.thrown THEN st
    ELSE IF isMemberThrows(root) THEN Throw(st)
    ELSE IF ~(isMember(root, root.light) /\ isObject(root.light)) THEN st
    ELSE LET light == root.light.f
             s1 == Extract(st, "lux", light["sqm"])
             s2 == Extract(s1, "skyBrightness", light["lux"])
             p1 == setParameterValue(s2.params, "WEATHER_LIGHT_LUX", s2.wd.lux)
             p2 == setParameterValue(p1, "WEATHER_SKY_BRIGHTNESS",
                                     s2.wd.skyBrightness)
         IN  IF s2.thrown THEN s2 ELSE [s2 EXCEPT !.params = p2]

\* lines 235-246
ParseLight(st, root) ==
    IF st.thrown THEN st
    ELSE IF isMemberThrows(root) THEN Throw(st)
    ELSE IF ~(isMember(root, root.light) /\ isObject(root.light)) THEN st
    ELSE LET light == root.light.f
             s1 == Extract(st, "lux", light["lux"])
             s2 == Extract(s1, "skyBrightness", light["sqm"])
             p1 == setParameterValue(s2.params, "WEATHER_LIGHT_LUX", s2.wd.lux)
             p2 == setParameterValue(p1, "WEATHER_SKY_BRIGHTNESS",
                                     s2.wd.skyBrightness)
         IN  IF s2.thrown THEN s2 ELSE [s2 EXCEPT !.params = p2]

\* variant: a document without a cloud object is an error
ParseCloud_required(st, root) ==
    IF st.thrown THEN st
    ELSE IF isMemberThrows(root) THEN Throw(st)
    ELSE IF ~(isMember(root, root.cloud) /\ isObject(root.cloud)) THEN Throw(st)
    ELSE LET center == root.cloud.f["center"]
         IN  IF isNull(center) THEN st
             ELSE IF asDoubleThrows(center) THEN Throw(st)
             ELSE LET wd == [st.wd EXCEPT
                                !.cloudTemp[CenterSlot] = asDouble(center)]
                  IN  [st EXCEPT
                          !.wd = wd,
                          !.params = setParameterValue(
                                        st.params, "WEATHER_SKY_TEMP_CENTER",
                                        wd.cloudTemp[CenterSlot])]

\* variant: the center reading is also stored as the average
ParseCloud_average(st, root) ==
    IF st.thrown THEN st
    ELSE IF isMemberThrows(root) THEN Throw(st)
    ELSE IF ~(isMember(root, root.cloud) /\ isObject(root.cloud)) THEN st
    ELSE LET center == root.cloud.f["center"]
         IN  IF isNull(center) THEN st
             ELSE IF asDoubleThrows(center) THEN Throw(st)
             ELSE LET wd == [st.wd EXCEPT
                                !.cloudTemp[CenterSlot] = asDouble(center),
                                !.avgCloudTemp = asDouble(center)]
                  IN  [st EXCEPT
                          !.wd = wd,
                          !.params = setParameterValue(
                                        st.params, "WEATHER_SKY_TEMP_CENTER",
                                        wd.cloudTemp[CenterSlot])]

\* lines 248-258
ParseCloud(st, root) ==
    IF st.thrown THEN st
    ELSE IF isMemberThrows(root) THEN Throw(st)
    ELSE IF ~(isMember(root, root.cloud) /\ isObject(root.cloud)) THEN st
    ELSE LET center == root.cloud.f["center"]
         IN  IF isNull(center) THEN st
             ELSE IF asDoubleThrows(center) THEN Throw(st)
             ELSE LET wd == [st.wd EXCEPT
                                !.cloudTemp[CenterSlot] = asDouble(center)]
                  IN  [st EXCEPT
                          !.wd = wd,
                          !.params = setParameterValue(
                                        st.params, "WEATHER_SKY_TEMP_CENTER",
                                        wd.cloudTemp[CenterSlot])]

\* variant: the validity flag is never set
MarkValid_never(wd) == wd

\* line 260
MarkValid(wd) == [wd EXCEPT !.dataValid = TRUE]

\* the result of a parse or a poll: what it returned, how it ended
\* ("curl_init", "transport", "status", "format", "extraction", "ok") and the
\* snapshot and parameters it leaves
Result(ret, outcome, wd, ps) ==
    [ret |-> ret, outcome |-> outcome, wd |-> wd, params |-> ps]

\* variant: a failed extraction invalidates the snapshot
CatchException_invalidates(st) ==
    Result(FALSE, "extraction", [st.wd EXCEPT !.dataValid = FALSE], st.params)

\* catch (const std::exception&): lines 267-271
CatchException(st) == Result(FALSE, "extraction", st.wd, st.params)

parseJSONData(wd, ps, body) ==
    IF ~parseFromStream(body) THEN Result(FALSE, "format", wd, ps)
    ELSE LET st0 == [wd |-> wd, params |-> ps, thrown |-> FALSE]
             st3 == ParseCloud(ParseLight(ParseHygro(st0, body), body), body)
         IN  IF st3.thrown THEN CatchException(st3)
             ELSE Result(TRUE, "ok", MarkValid(st3.wd), st3.params)

----------------------------------------------------------------------------
(* readHTTPData (amsky01_api.cpp:161-202)                                  *)
(* What libcurl and the server do is an input: curl is "init_failed"       *)
(* (curl_easy_init returned null), "error" (curl_easy_perform failed) or   *)
(* "ok", with the response code and the body received.                     *)

HttpCodes == {HTTP_OK, 404}

Reply(curl, code, body) == [curl |-> curl, http_code |-> code, body |-> body]
\* no request was made
NoReply == Reply("none", 0, NotJson)

\* variant: the response code is not looked at
readHTTPData_anycode(wd, ps, reply) ==
    IF reply.curl = "init_failed" THEN Result(FALSE, "curl_init", wd, ps)
    ELSE IF reply.curl # "ok" THEN Result(FALSE, "transport", wd, ps)
    ELSE parseJSONData(wd, ps, reply.body)

readHTTPData(wd, ps, reply) ==
    IF reply.curl = "init_failed" THEN Result(FALSE, "curl_init", wd, ps)
    ELSE IF reply.curl # "ok" THEN Result(FALSE, "transport", wd, ps)
    ELSE IF reply.http_code # HTTP_OK THEN Result(FALSE, "status", wd, ps)
    ELSE parseJSONData(wd, ps, reply.body)

\* the URL a poll requests (line 174), "" when no request is made
RequestedUrl(reply) == IF reply.curl = "init_failed" THEN "" ELSE apiUrl

\* IPState updateWeather() (lines 274-283)
updateWeather(wd) == IF ~wd.dataValid THEN "IPS_ALERT" ELSE "IPS_OK"

----------------------------------------------------------------------------
(* Host framework pieces the driver calls *)

DeviceName == "AMSKY01 API"     \* getDefaultName()
Devices == {DeviceName, "Other Device"}
TextProperties == {"API_CONFIG", "ACTIVE_DEVICES"}
TextElements == {"API_URL", "BOGUS"}

\* SetTimer(ms): one more pending one-shot timer of that period
SetTimer(ts, ms) == [ts EXCEPT ![ms] = @ + 1]
\* the host removes a timer when it fires
RemoveFired(ts, ms) == [ts EXCEPT ![ms] = @ - 1]
NoTimers == [p \in TimerPeriods |-> 0]
Pending(ts, ms) == ts[ms] > 0
RECURSIVE SumOver(_, _)
SumOver(ts, S) ==
    IF S = {} THEN 0
    ELSE LET p == CHOOSE x \in S : TRUE IN ts[p] + SumOver(ts, S \ {p})
TimerCount(ts) == SumOver(ts, TimerPeriods)

\* IUUpdateText on the one-element vector ApiUrlTP: an unknown element name
\* is rejected and the stored text stays
IUUpdateText(text, elem, new) == IF elem = "API_URL" THEN new ELSE text

\* the history record
Last(op, ret, outcome, reply, url, was, fired, armed) ==
    [op |-> op, ret |-> ret, outcome |-> outcome, reply |-> reply, url |-> url,
     wasConnected |-> was, fired |-> fired, armed |-> armed,
     elem |-> "", text |-> ""]
\* with the element name and the text a text update carried
LastText(l, elem, text) == [l EXCEPT !.elem = elem, !.text = text]
Bool(b) == IF b THEN "true" ELSE "false"

----------------------------------------------------------------------------
(* Replies the server and libcurl give in the life-cycle specification *)

Members3(t, r, d) == [k \in HygroKeys |->
    IF k = "temp" THEN t ELSE IF k = "rh" THEN r ELSE d]
Members2(l, q) == [k \in LightKeys |-> IF k = "lux" THEN l ELSE q]
Members1(c) == [k \in CloudKeys |-> c]

\* all three namespaces, all six members
SixDoc(t, r, d, l, q, c) ==
    Body("object", ObjNS(Members3(NumV(t), NumV(r), NumV(d))),
                   ObjNS(Members2(NumV(l), NumV(q))),
                   ObjNS(Members1(NumV(c))))
FullDoc(n) == SixDoc(n, n, n, n, n, n)
\* {"hygro":{"temp":n,"rh":n,"dew_point":n}}
HygroDoc(n) ==
    Body("object", ObjNS(Members3(NumV(n), NumV(n), NumV(n))),
                   AbsentNS(LightKeys), AbsentNS(CloudKeys))
\* {"hygro":{"temp":n,"rh":"x"}}: temp converts, rh does not
BadRhDoc(n) ==
    Body("object", ObjNS(Members3(NumV(n), StrV, AbsentV)),
                   AbsentNS(LightKeys), AbsentNS(CloudKeys))

Responses ==
    {NotJson, EmptyDoc, ArrayDoc, NullDoc}
    \cup {FullDoc(n) : n \in Nums}
    \cup {HygroDoc(n) : n \in Nums}
    \cup {BadRhDoc(n) : n \in Nums}

Replies ==
    {Reply("init_failed", 0, NotJson), Reply("error", 0, NotJson)}
    \cup {Reply("ok", c, b) : c \in HttpCodes, b \in Responses}

----------------------------------------------------------------------------
(* State after construction and initProperties *)

Init ==
    /\ weatherData = InitWeatherData
    /\ params = InitParams
    /\ apiUrl = DefaultUrl
    /\ ApiUrlT = DefaultUrl
    /\ ApiUrlTPs = "IPS_IDLE"
    /\ connected = FALSE
    /\ timers = NoTimers
    /\ pollingPeriod = DefaultPollingPeriod
    /\ jsonData = NotJson
    /\ calls = 0
    /\ parsed = FALSE
    /\ last = Last("init", "none", "none", NoReply, "", FALSE, 0, 0)

----------------------------------------------------------------------------
(* Callbacks *)

\* variant: Connect reports success whatever the poll returned
Connect_always(wd, ps, reply) ==
    [readHTTPData(wd, ps, reply) EXCEPT !.ret = TRUE]

\* variant: Connect succeeds as soon as the fetch does, whatever the parse says
Connect_ignoresParse(wd, ps, reply) ==
    LET r == readHTTPData(wd, ps, reply)
    IN  [r EXCEPT !.ret = (r.outcome \notin {"curl_init", "transport", "status"})]

\* bool Connect() (lines 108-123): the result of its one poll
Connect(wd, ps, reply) == readHTTPData(wd, ps, reply)

\* variant: Disconnect reports failure
Disconnect_fails == FALSE

\* bool Disconnect() (lines 125-129)
Disconnect == TRUE

\* updateProperties() (lines 79-106): arms the timer when connected
updateProperties(ts, conn) == IF conn THEN SetTimer(ts, ConnectTimerMs) ELSE ts

\* the host asks to connect: Connect(), and on success the connection flag
\* is set and updateProperties() runs
ConnectRequest ==
    /\ ~connected
    /\ TimerCount(timers) < MaxTimers
    /\ \E reply \in Replies :
         LET r == Connect(weatherData, params, reply) IN
         /\ weatherData' = r.wd
         /\ params' = r.params
         /\ parsed' = (parsed \/ r.ret)
         /\ connected' = r.ret
         /\ timers' = IF r.ret THEN updateProperties(timers, TRUE) ELSE timers
         /\ last' = Last("Connect", Bool(r.ret), r.outcome, reply,
                         RequestedUrl(reply), connected, 0,
                         IF r.ret THEN ConnectTimerMs ELSE 0)
    /\ UNCHANGED <<apiUrl, ApiUrlT, ApiUrlTPs, pollingPeriod, jsonData, calls>>

\* the host asks to disconnect: Disconnect() is called when connected, and
\* on success the flag is cleared and updateProperties() runs
DisconnectRequest ==
    /\ connected' = IF connected THEN ~Disconnect ELSE FALSE
    /\ timers' = IF connected /\ Disconnect
                 THEN updateProperties(timers, FALSE) ELSE timers
    /\ last' = Last("Disconnect", IF connected THEN Bool(Disconnect) ELSE "none",
                    "none", NoReply, "", connected, 0, 0)
    /\ UNCHANGED <<weatherData, params, apiUrl, ApiUrlT, ApiUrlTPs,
                   pollingPeriod, jsonData, calls, parsed>>

\* variant: the tick polls without looking at the connection
TimerHit_unguarded ==
    \E ms \in TimerPeriods :
      /\ Pending(timers, ms)
      /\ \E reply \in Replies :
            LET r == readHTTPData(weatherData, params, reply) IN
            /\ weatherData' = r.wd
            /\ params' = r.params
            /\ timers' = SetTimer(RemoveFired(timers, ms), pollingPeriod)
            /\ parsed' = (parsed \/ r.ret)
            /\ last' = Last("TimerHit", Bool(r.ret), r.outcome, reply,
                            RequestedUrl(reply), connected, ms, pollingPeriod)
      /\ UNCHANGED <<apiUrl, ApiUrlT, ApiUrlTPs, connected, pollingPeriod,
                     jsonData, calls>>

\* variant: the timer is re-armed only after a successful poll
TimerHit_stopsOnFailure ==
    \E ms \in TimerPeriods :
      /\ Pending(timers, ms)
      /\ IF ~connected
         THEN /\ timers' = SetTimer(RemoveFired(timers, ms), pollingPeriod)
              /\ last' = Last("TimerHit", "none", "none", NoReply, "",
                              connected, ms, pollingPeriod)
              /\ UNCHANGED <<weatherData, params, parsed>>
         ELSE \E reply \in Replies :
                LET r == readHTTPData(weatherData, params, reply) IN
                /\ weatherData' = r.wd
                /\ params' = r.params
                /\ timers' = IF r.ret
                             THEN SetTimer(RemoveFired(timers, ms),
                                           pollingPeriod)
                             ELSE RemoveFired(timers, ms)
                /\ parsed' = (parsed \/ r.ret)
                /\ last' = Last("TimerHit", Bool(r.ret), r.outcome, reply,
                                RequestedUrl(reply), connected, ms,
                                IF r.ret THEN pollingPeriod ELSE 0)
      /\ UNCHANGED <<apiUrl, ApiUrlT, ApiUrlTPs, connected, pollingPeriod,
                     jsonData, calls>>

\* variant: a failed poll drops the connection
TimerHit_dropsOnFailure ==
    \E ms \in TimerPeriods :
      /\ Pending(timers, ms)
      /\ IF ~connected
         THEN /\ timers' = SetTimer(RemoveFired(timers, ms), pollingPeriod)
              /\ last' = Last("TimerHit", "none", "none", NoReply, "",
                              connected, ms, pollingPeriod)
              /\ UNCHANGED <<weatherData, params, parsed, connected>>
         ELSE \E reply \in Replies :
                LET r == readHTTPData(weatherData, params, reply) IN
                /\ weatherData' = r.wd
                /\ params' = r.params
                /\ connected' = r.ret
                /\ timers' = SetTimer(RemoveFired(timers, ms), pollingPeriod)
                /\ parsed' = (parsed \/ r.ret)
                /\ last' = Last("TimerHit", Bool(r.ret), r.outcome, reply,
                                RequestedUrl(reply), connected, ms,
                                pollingPeriod)
      /\ UNCHANGED <<apiUrl, ApiUrlT, ApiUrlTPs, pollingPeriod,
                     jsonData, calls>>

\* void TimerHit() (lines 131-141), run when a pending timer fires
TimerHit ==
    \E ms \in TimerPeriods :
      /\ Pending(timers, ms)
      /\ IF ~connected
         THEN /\ timers' = SetTimer(RemoveFired(timers, ms), pollingPeriod)
              /\ last' = Last("TimerHit", "none", "none", NoReply, "",
                              connected, ms, pollingPeriod)
              /\ UNCHANGED <<weatherData, params, parsed>>
         ELSE \E reply \in Replies :
                LET r == readHTTPData(weatherData, params, reply) IN
                /\ weatherData' = r.wd
                /\ params' = r.params
                /\ timers' = SetTimer(RemoveFired(timers, ms), pollingPeriod)
                /\ parsed' = (parsed \/ r.ret)
                /\ last' = Last("TimerHit", Bool(r.ret), r.outcome, reply,
                                RequestedUrl(reply), connected, ms,
                                pollingPeriod)
      /\ UNCHANGED <<apiUrl, ApiUrlT, ApiUrlTPs, connected, pollingPeriod,
                     jsonData, calls>>

\* variant: a text that is not a URL is refused
ISNewText_validates ==
    \E dev \in Devices, name \in TextProperties,
       elem \in TextElements, text \in Urls :
      /\ IF dev = DeviceName /\ name = "API_CONFIG"
         THEN /\ ApiUrlT' = IF text = DefaultUrl
                            THEN IUUpdateText(ApiUrlT, elem, text)
                            ELSE ApiUrlT
              /\ apiUrl' = ApiUrlT'
              /\ ApiUrlTPs' = IF text = DefaultUrl THEN "IPS_OK"
                              ELSE "IPS_ALERT"
              /\ last' = LastText(Last("ISNewText", "true", "none", NoReply,
                                       "", connected, 0, 0), elem, text)
         ELSE /\ UNCHANGED <<ApiUrlT, apiUrl, ApiUrlTPs>>
              /\ last' = Last("ISNewText", "base", "none", NoReply, "",
                              connected, 0, 0)
      /\ UNCHANGED <<weatherData, params, connected, timers, pollingPeriod,
                     jsonData, calls, parsed>>

\* bool ISNewText(dev, name, texts, names, n) (lines 143-159) with one
\* element; anything not for ApiUrlTP of this device goes to the base class
ISNewText ==
    \E dev \in Devices, name \in TextProperties,
       elem \in TextElements, text \in Urls :
      /\ IF dev = DeviceName /\ name = "API_CONFIG"
         THEN /\ ApiUrlT' = IUUpdateText(ApiUrlT, elem, text)
              /\ apiUrl' = ApiUrlT'
              /\ ApiUrlTPs' = "IPS_OK"
              /\ last' = LastText(Last("ISNewText", "true", "none", NoReply,
                                       "", connected, 0, 0), elem, text)
         ELSE /\ UNCHANGED <<ApiUrlT, apiUrl, ApiUrlTPs>>
              /\ last' = Last("ISNewText", "base", "none", NoReply, "",
                              connected, 0, 0)
      /\ UNCHANGED <<weatherData, params, connected, timers, pollingPeriod,
                     jsonData, calls, parsed>>

\* variant: with no valid data the status request polls
UpdateWeather_polls ==
    IF weatherData.dataValid
    THEN /\ last' = Last("updateWeather", updateWeather(weatherData), "none",
                         NoReply, "", connected, 0, 0)
         /\ UNCHANGED <<weatherData, params, apiUrl, ApiUrlT, ApiUrlTPs,
                        connected, timers, pollingPeriod, jsonData, calls,
                        parsed>>
    ELSE \E reply \in Replies :
           LET r == readHTTPData(weatherData, params, reply) IN
           /\ weatherData' = r.wd
           /\ params' = r.params
           /\ parsed' = (parsed \/ r.ret)
           /\ last' = Last("updateWeather", updateWeather(r.wd), r.outcome,
                           reply, RequestedUrl(reply), connected, 0, 0)
           /\ UNCHANGED <<apiUrl, ApiUrlT, ApiUrlTPs, connected, timers,
                          pollingPeriod, jsonData, calls>>

\* the host asks for the weather status
UpdateWeather ==
    /\ last' = Last("updateWeather", updateWeather(weatherData), "none",
                    NoReply, "", connected, 0, 0)
    /\ UNCHANGED <<weatherData, params, apiUrl, ApiUrlT, ApiUrlTPs, connected,
                   timers, pollingPeriod, jsonData, calls, parsed>>

\* the user changes POLLING_PERIOD, which getCurrentPollingPeriod() reads
SetPollingPeriod ==
    \E ms \in PollingPeriods :
      /\ ms # pollingPeriod
      /\ pollingPeriod' = ms
      /\ last' = Last("SetPollingPeriod", "none", "none", NoReply, "",
                      connected, 0, 0)
      /\ UNCHANGED <<weatherData, params, apiUrl, ApiUrlT, ApiUrlTPs,
                     connected, timers, jsonData, calls, parsed>>

Next ==
    \/ ConnectRequest
    \/ DisconnectRequest
    \/ TimerHit
    \/ ISNewText
    \/ UpdateWeather
    \/ SetPollingPeriod

Spec == Init /\ [][Next]_vars

----------------------------------------------------------------------------
(* parseJSONData on its own: a prior snapshot and a document, parsed once  *)
(* and then again                                                          *)

\* prior states: the initial one, and the one left by a full document
AfterFull(n) == parseJSONData(InitWeatherData, InitParams, FullDoc(n))
PriorStates ==
    {[wd |-> InitWeatherData, params |-> InitParams]}
    \cup {[wd |-> AfterFull(n).wd, params |-> AfterFull(n).params] : n \in Nums}

InitParse ==
    /\ \E s \in PriorStates : weatherData = s.wd /\ params = s.params
    /\ jsonData \in Docs \cup {NotJson}
    /\ calls = 0
    /\ parsed = weatherData.dataValid
    /\ apiUrl = DefaultUrl
    /\ ApiUrlT = DefaultUrl
    /\ ApiUrlTPs = "IPS_IDLE"
    /\ connected = FALSE
    /\ timers = NoTimers
    /\ pollingPeriod = DefaultPollingPeriod
    /\ last = Last("init", "none", "none", NoReply, "", FALSE, 0, 0)

ParseStep ==
    /\ calls < MaxParses
    /\ LET r == parseJSONData(weatherData, params, jsonData) IN
       /\ weatherData' = r.wd
       /\ params' = r.params
       /\ last' = Last("parseJSONData", Bool(r.ret), r.outcome, NoReply, "",
                       FALSE, 0, 0)
       /\ parsed' = (parsed \/ r.ret)
    /\ calls' = calls + 1
    /\ UNCHANGED <<apiUrl, ApiUrlT, ApiUrlTPs, connected, timers,
                   pollingPeriod, jsonData>>

NextParse == ParseStep

SpecParse == InitParse /\ [][NextParse]_vars

----------------------------------------------------------------------------
(* Claims about the life cycle (Spec) *)

Polled == last.op \in {"Connect", "TimerHit"} /\ last.reply # NoReply
PolledNext == last'.op \in {"Connect", "TimerHit"} /\ last'.reply # NoReply

\* a body whose field extraction throws: the root is neither an object nor
\* null, or a member that is read from an object namespace is a string
Unconvertible(body) ==
    \/ body.root \notin {"object", "null"}
    \/ \E k \in HygroKeys : body.hygro.kind = "object" /\ body.hygro.f[k] = StrV
    \/ \E k \in LightKeys : body.light.kind = "object" /\ body.light.f[k] = StrV
    \/ \E k \in CloudKeys : body.cloud.kind = "object" /\ body.cloud.f[k] = StrV

\* the reply is an HTTP 200 response whose body is valid JSON
Got200Json(reply) ==
    reply.curl = "ok" /\ reply.http_code = HTTP_OK /\ parseFromStream(reply.body)

\* C1: the validity flag is false until the first successful parse and true
\* ever after, and updateWeather returns alert before it and OK after it
C1_ValidIffParsed ==
    /\ weatherData.dataValid = parsed
    /\ updateWeather(weatherData) = (IF parsed THEN "IPS_OK" ELSE "IPS_ALERT")
    /\ last.op = "updateWeather" =>
         last.ret = (IF parsed THEN "IPS_OK" ELSE "IPS_ALERT")

\* a failed poll after a successful one: the snapshot is still valid
C1_Witness ==
    /\ last.op = "TimerHit" /\ last.ret = "false"
    /\ last.outcome = "extraction"
    /\ parsed /\ weatherData.dataValid

\* C2 as stated: Connect returns success iff its poll got an HTTP 200
\* response whose body parses as valid JSON
C2_Original ==
    last.op = "Connect" =>
        (last.ret = "true" <=> Got200Json(last.reply))

\* C2 amended: Connect returns success iff its poll got an HTTP 200 response
\* whose body parses as valid JSON and whose field extraction does not throw
C2_ConnectIffParsed ==
    last.op = "Connect" =>
        /\ last.ret = "true" <=>
              (Got200Json(last.reply) /\ ~Unconvertible(last.reply.body))
        /\ connected = (last.ret = "true")

\* Connect failed on an HTTP 200 response with a well-formed body
C2_Witness ==
    /\ last.op = "Connect" /\ last.ret = "false" /\ ~connected
    /\ Got200Json(last.reply)

\* C3 as stated: when field extraction throws, the poll returns failure and
\* the snapshot is as it was before the poll
C3_ExtractionLeavesSnapshot ==
    [][(PolledNext /\ last'.outcome = "extraction") =>
          (last'.ret = "false" /\ weatherData' = weatherData)]_vars

\* C4: a poll that ends in a transport error, a non-200 status or a body
\* that is not valid JSON returns failure and leaves the snapshot as it was
C4_FailedPollKeepsSnapshot ==
    [][(PolledNext /\ last'.reply.curl # "init_failed"
                   /\ ~Got200Json(last'.reply)) =>
          (last'.ret = "false" /\ weatherData' = weatherData)]_vars

\* a 404 that carries a full document, received with a valid snapshot
C4_Witness ==
    /\ last.op = "TimerHit" /\ last.ret = "false"
    /\ last.reply.curl = "ok" /\ last.reply.http_code # HTTP_OK
    /\ last.reply.body \in {FullDoc(n) : n \in Nums}
    /\ weatherData.dataValid
    /\ weatherData.temperature # last.reply.body.hygro.f["temp"].v

\* C5: a poll returns true only if the transport succeeded, the status was
\* 200 and the parse succeeded, and then the snapshot is valid
C5_TrueOnlyAfterParse ==
    (Polled /\ last.ret = "true") =>
        /\ last.reply.curl = "ok"
        /\ last.reply.http_code = HTTP_OK
        /\ parseFromStream(last.reply.body)
        /\ last.outcome = "ok"
        /\ weatherData.dataValid

C5_Witness ==
    /\ last.op = "TimerHit" /\ last.ret = "true"
    /\ last.reply.body = EmptyDoc
    /\ weatherData.dataValid

\* C10: a timer callback that fires while the driver is not connected makes
\* no HTTP request and changes nothing but the pending timers: the fired
\* timer is replaced by one of the current polling period
C10_IdleTickOnlyRearms ==
    [][(last'.op = "TimerHit" /\ ~connected) =>
          /\ last'.reply = NoReply /\ last'.url = ""
          /\ weatherData' = weatherData
          /\ params' = params
          /\ apiUrl' = apiUrl /\ ApiUrlT' = ApiUrlT /\ ApiUrlTPs' = ApiUrlTPs
          /\ connected' = connected
          /\ pollingPeriod' = pollingPeriod
          /\ last'.armed = pollingPeriod
          /\ timers' = SetTimer(RemoveFired(timers, last'.fired),
                                pollingPeriod)]_vars

\* the 2000 ms timer armed on connect fired after a disconnect and was
\* replaced by one of the polling period, 1000 ms
C10_Witness ==
    /\ last.op = "TimerHit" /\ ~last.wasConnected /\ ~connected
    /\ last.fired = ConnectTimerMs
    /\ last.armed = DefaultPollingPeriod
    /\ timers[DefaultPollingPeriod] = 1 /\ timers[ConnectTimerMs] = 0
    /\ weatherData.dataValid

\* C11: a timer callback that fires while the driver is connected makes one
\* poll and replaces the fired timer by one of the current polling period
\* whatever the poll returned, so a connected driver always has a tick
\* pending
C11_ConnectedTickRearms ==
    [][/\ (last'.op = "TimerHit" /\ connected) =>
            /\ last'.reply \in Replies
            /\ last'.ret \in {"true", "false"}
            /\ last'.armed = pollingPeriod
            /\ timers' = SetTimer(RemoveFired(timers, last'.fired),
                                  pollingPeriod)
       /\ connected' => TimerCount(timers') >= 1]_vars

\* a tick of a connected driver whose poll got a 404, and a timer is pending
C11_Witness ==
    /\ last.op = "TimerHit" /\ last.wasConnected /\ connected
    /\ last.ret = "false" /\ last.outcome = "status"
    /\ last.armed = pollingPeriod
    /\ TimerCount(timers) = 1

\* C12: no poll outcome in the timer callback changes the connection state:
\* a driver connected before the tick is connected after it, also when the
\* poll failed in transport, status, format or extraction
C12_TickKeepsConnection ==
    [][(last'.op = "TimerHit") =>
          /\ connected' = connected
          /\ (connected /\ last'.ret = "false") =>
                (connected' /\ last'.outcome \in
                    {"curl_init", "transport", "status", "format",
                     "extraction"})]_vars

\* a connected driver after a tick whose poll failed in transport
C12_Witness ==
    /\ last.op = "TimerHit" /\ last.wasConnected
    /\ last.ret = "false" /\ last.outcome = "transport"
    /\ connected

\* C13: when ISNewText takes a new API_URL text for this device, apiUrl
\* becomes that text whatever it is, the property state becomes OK, the
\* handler makes no poll and changes nothing else; apiUrl changes in no other
\* way, and every poll requests the apiUrl of its time
C13_UrlChangeTakesEffect ==
    [][/\ (last'.op = "ISNewText" /\ last'.ret = "true"
                                  /\ last'.elem = "API_URL") =>
            /\ apiUrl' = last'.text
            /\ ApiUrlTPs' = "IPS_OK"
            /\ last'.reply = NoReply /\ last'.url = ""
            /\ weatherData' = weatherData
            /\ params' = params
            /\ timers' = timers
            /\ connected' = connected
       /\ apiUrl' # apiUrl => last'.op = "ISNewText"
       /\ (PolledNext /\ last'.reply.curl # "init_failed") =>
            last'.url = apiUrl]_vars

\* a tick polled the text that was stored in place of the default URL
C13_Witness ==
    /\ last.op = "TimerHit" /\ last.wasConnected
    /\ last.url = "not a url"
    /\ apiUrl = "not a url" /\ ApiUrlT = "not a url"
    /\ ApiUrlTPs = "IPS_OK"

\* C14: updateWeather makes no poll and changes no driver state: snapshot,
\* parameters, URL, connection state and pending timers are as before
C14_UpdateWeatherReadsOnly ==
    [][(last'.op = "updateWeather") =>
          /\ last'.reply = NoReply /\ last'.url = ""
          /\ last'.ret = updateWeather(weatherData)
          /\ weatherData' = weatherData
          /\ params' = params
          /\ apiUrl' = apiUrl /\ ApiUrlT' = ApiUrlT /\ ApiUrlTPs' = ApiUrlTPs
          /\ connected' = connected
          /\ timers' = timers
          /\ pollingPeriod' = pollingPeriod]_vars

\* the status was asked before any data arrived
C14_Witness ==
    /\ last.op = "updateWeather" /\ last.ret = "IPS_ALERT"
    /\ weatherData = InitWeatherData
    /\ apiUrl = "not a url"

\* C15: Disconnect succeeds in every state in which it is called and only
\* the connection state changes: the snapshot with its validity flag, the
\* parameters and the configured URL are as before
C15_DisconnectOnlyDisconnects ==
    [][(last'.op = "Disconnect") =>
          /\ connected => last'.ret = "true"
          /\ ~connected'
          /\ last'.reply = NoReply
          /\ weatherData' = weatherData
          /\ params' = params
          /\ apiUrl' = apiUrl /\ ApiUrlT' = ApiUrlT]_vars

\* disconnected with a valid snapshot and a changed URL, both kept
C15_Witness ==
    /\ last.op = "Disconnect" /\ last.ret = "true" /\ last.wasConnected
    /\ ~connected
    /\ weatherData.dataValid /\ weatherData.temperature = 2
    /\ apiUrl = "not a url"

\* C16 as stated: polling runs at one fixed interval of 2 seconds: the timer
\* armed on connect and every timer re-armed by the timer callback are
\* 2000 ms timers, whatever the polls returned
C16_FixedTwoSeconds ==
    /\ last.armed \in {0, ConnectTimerMs}
    /\ \A ms \in TimerPeriods : Pending(timers, ms) => ms = ConnectTimerMs

\* C17: of the five cloud-temperature slots only slot 4, the center one, is
\* ever written: the other four and the average still hold 0
C17_OnlyCenterWritten ==
    /\ DOMAIN weatherData.cloudTemp = 0..4
    /\ \A i \in 0..3 : weatherData.cloudTemp[i] = 0
    /\ weatherData.avgCloudTemp = 0

\* the center slot was written by a poll
C17_Witness ==
    /\ Polled /\ last.ret = "true"
    /\ weatherData.cloudTemp[4] = 2
    /\ \A i \in 0..3 : weatherData.cloudTemp[i] = 0
    /\ weatherData.avgCloudTemp = 0

\* C18: at most one poll timer is pending at any time, under any sequence of
\* connect, disconnect, reconnect and timer ticks
C18_AtMostOneTimer == TimerCount(timers) <= 1

\* C19: each of the six host parameters equals the corresponding snapshot
\* field in every reachable state
C19_ParamsMirrorSnapshot ==
    /\ params["WEATHER_TEMPERATURE"] = weatherData.temperature
    /\ params["WEATHER_HUMIDITY"] = weatherData.humidity
    /\ params["WEATHER_DEW_POINT"] = weatherData.dewPoint
    /\ params["WEATHER_LIGHT_LUX"] = weatherData.lux
    /\ params["WEATHER_SKY_BRIGHTNESS"] = weatherData.skyBrightness
    /\ params["WEATHER_SKY_TEMP_CENTER"] = weatherData.cloudTemp[CenterSlot]

\* C20: whenever the driver is connected the snapshot is valid, and an
\* updateWeather call made while connected returns IPS_OK
C20_ConnectedIsValid ==
    /\ connected => weatherData.dataValid
    /\ (last.op = "updateWeather" /\ last.wasConnected) => last.ret = "IPS_OK"

\* updateWeather was called on a connected driver
C20_Witness ==
    /\ last.op = "updateWeather" /\ last.wasConnected /\ connected
    /\ last.ret = "IPS_OK"
    /\ weatherData.dataValid

----------------------------------------------------------------------------
(* Claims about parseJSONData (SpecParse) *)

\* the snapshot field a member is copied into
FieldOf(wd, key) ==
    CASE key = "temp" -> wd.temperature
      [] key = "rh" -> wd.humidity
      [] key = "dew_point" -> wd.dewPoint
      [] key = "lux" -> wd.lux
      [] key = "sqm" -> wd.skyBrightness
      [] key = "center" -> wd.cloudTemp[CenterSlot]

AllKeys == HygroKeys \cup LightKeys \cup CloudKeys
NamespaceOf(body, key) ==
    IF key \in HygroKeys THEN body.hygro
    ELSE IF key \in LightKeys THEN body.light
    ELSE body.cloud

NamespaceAbsent(body, key) == NamespaceOf(body, key).kind = "absent"
\* the key's namespace is absent, or it is an object without that member
KeyAbsent(body, key) ==
    \/ NamespaceAbsent(body, key)
    \/ /\ NamespaceOf(body, key).kind = "object"
       /\ NamespaceOf(body, key).f[key] = AbsentV

Parsing == calls' = calls + 1

\* C6: parsing a well-formed document leaves every field whose namespace is
\* absent, and every field absent inside a present namespace, at its
\* previous value
C6_AbsentKeepsField ==
    [][(Parsing /\ parseFromStream(jsonData)) =>
          \A key \in AllKeys :
             KeyAbsent(jsonData, key) =>
                FieldOf(weatherData', key) = FieldOf(weatherData, key)]_vars

\* a hygro-only document parsed over a snapshot that held 2 everywhere
C6_Witness ==
    /\ calls = 1 /\ last.ret = "true"
    /\ jsonData.hygro.kind = "object" /\ jsonData.hygro.f["temp"] = NumV(1)
    /\ jsonData.hygro.f["rh"] = AbsentV
    /\ jsonData.light.kind = "absent"
    /\ weatherData.temperature = 1
    /\ weatherData.humidity = 2
    /\ weatherData.lux = 2

\* all three namespaces are objects and all six members are numbers
IsSix(body) ==
    /\ body.root = "object"
    /\ \A key \in AllKeys :
          /\ NamespaceOf(body, key).kind = "object"
          /\ NamespaceOf(body, key).f[key].t = "num"

\* C7: parsing a document with all three namespaces and all six members
\* sets each of the six fields to the value provided for it
C7_SixFieldsSet ==
    (calls >= 1 /\ IsSix(jsonData)) =>
        /\ last.ret = "true"
        /\ \A key \in AllKeys :
              FieldOf(weatherData, key) = NamespaceOf(jsonData, key).f[key].v

\* six pairwise different-enough values over a snapshot that held 2
C7_Witness ==
    /\ calls = 1 /\ IsSix(jsonData)
    /\ weatherData.temperature = 1 /\ weatherData.humidity = 2
    /\ weatherData.dewPoint = 1
    /\ weatherData.lux = 1 /\ weatherData.skyBrightness = 2
    /\ weatherData.cloudTemp[CenterSlot] = 1

\* C8: parsing the same document a second time leaves the snapshot that
\* the first parse left
C8_Idempotent ==
    [][(Parsing /\ calls >= 1) => weatherData' = weatherData]_vars

\* parsed twice, and the first parse had changed the snapshot
C8_Witness ==
    /\ calls = 2 /\ last.ret = "true"
    /\ jsonData.hygro.kind = "object" /\ jsonData.hygro.f["temp"] = NumV(1)
    /\ jsonData.light.kind = "absent"
    /\ weatherData.temperature = 1 /\ weatherData.lux = 2

SomeNamespaceAbsent(body) == \E key \in AllKeys : NamespaceAbsent(body, key)

\* what C9 promises of a parse
SkippedAndValid ==
    /\ last'.ret = "true"
    /\ weatherData'.dataValid
    /\ \A key \in AllKeys :
          NamespaceAbsent(jsonData, key) =>
             FieldOf(weatherData', key) = FieldOf(weatherData, key)

\* C9 as stated: every well-formed document in which some namespace is
\* absent parses successfully, its absent namespaces change no field and the
\* snapshot is marked valid
C9_Original ==
    [][(Parsing /\ parseFromStream(jsonData) /\ SomeNamespaceAbsent(jsonData))
          => SkippedAndValid]_vars

\* C9 amended: the same for the documents whose field extraction does not
\* throw
C9_AbsentNamespaceSkipped ==
    [][(Parsing /\ parseFromStream(jsonData) /\ SomeNamespaceAbsent(jsonData)
                /\ ~Unconvertible(jsonData))
          => SkippedAndValid]_vars

\* the empty object parsed over the initial snapshot
C9_Witness ==
    /\ calls = 1 /\ last.ret = "true"
    /\ jsonData = EmptyDoc
    /\ weatherData = MarkValid(InitWeatherData)

====
